---------------------------- MODULE Spec2Model ----------------------------
(***************************************************************************)
(* Model of the OpenAI status monitor:                                     *)
(*   - src/status_monitor.py : the RSS Feed Poller (track_status), the     *)
(*     keyword Classifier (detect_product) and the flat-file Log Store     *)
(*     (log_to_json);                                                      *)
(*   - src/app.py : the Webhook Receiver (handle_openai_status), its own   *)
(*     Classifier and extract_latest_update.                               *)
(*                                                                         *)
(* Python str values are sequences of one-character strings, so that       *)
(* lower(), capitalize(), concatenation and the substring test `kw in      *)
(* text` are computed character by character.                              *)
(*                                                                         *)
(* The module holds four specifications over one set of variables; the     *)
(* variables of the components a specification does not run stay at their  *)
(* initial values:                                                         *)
(*   ClassifierSpec  detect_product of both entry points on built texts    *)
(*   PollerSpec      track_status (FairPollerSpec adds the loop's progress)*)
(*   StoreSpec       log_to_json run by one or two writer processes        *)
(*   WebhookSpec     handle_openai_status on a sequence of calls           *)
(***************************************************************************)
EXTENDS Integers, Sequences, FiniteSets, TLC

VARIABLES
    \* ---- Classifier harness
    text,             \* the input text (a str)
    nfrag,            \* how many fragments the text was built from
    app_product,      \* app.detect_product(text), "" before the call
    monitor_product,  \* status_monitor.detect_product(text), "" before the call
    \* ---- Log Store (the file logs/openai_status_log.json)
    file,             \* Missing, or the file's content as JSON tokens
    initial,          \* the records the file held when the run started
    w_pc,             \* writer -> position inside log_to_json
    w_data,           \* writer -> the record it is appending
    w_existing,       \* writer -> its local `existing`
    w_left,           \* writer -> how many appends it still has to start
    w_quota,          \* writer -> how many appends it performs in all
    completed,        \* records whose log_to_json call returned, in order
    overlapped,       \* TRUE once two log_to_json calls were in progress at once
    \* ---- Feed Poller
    pc,               \* "fetch" | "sleep" ("off" when the poller does not run)
    feed,             \* the local `feed`: the entries of the last fetch
    last_seen,        \* the global last_seen: None or a datetime
    outcome,          \* what the last cycle did
    hist,             \* the newest instants of the first cycles (Empty for an empty feed)
    appended,         \* the feed entries print_incident was called on, in order
    \* ---- Webhook Receiver
    request,          \* the body of the last call handled
    response,         \* the HTTP status of the last call
    log_line,         \* the last line given to logger.info
    emitted,          \* how many lines were given to logger.info
    calls,            \* how many calls were handled
    valid_calls       \* how many of them carried a JSON object with an "incident" object

classifierVars == <<text, nfrag, app_product, monitor_product>>
storeVars == <<file, initial, w_pc, w_data, w_existing, w_left, w_quota, completed,
               overlapped>>
pollerVars == <<pc, feed, last_seen, outcome, hist, appended>>
webhookVars == <<request, response, log_line, emitted, calls, valid_calls>>
vars == <<classifierVars, storeVars, pollerVars, webhookVars>>

-----------------------------------------------------------------------------
(* Python str, modelled as a sequence of characters                        *)

UPPERCASE == <<"A", "B", "C", "D", "E", "F", "G", "H", "I", "J", "K", "L", "M",
               "N", "O", "P", "Q", "R", "S", "T", "U", "V", "W", "X", "Y", "Z">>
LOWERCASE == <<"a", "b", "c", "d", "e", "f", "g", "h", "i", "j", "k", "l", "m",
               "n", "o", "p", "q", "r", "s", "t", "u", "v", "w", "x", "y", "z">>

LowerChar(c) ==
    IF \E i \in 1..26 : UPPERCASE[i] = c
    THEN LOWERCASE[CHOOSE i \in 1..26 : UPPERCASE[i] = c]
    ELSE c

UpperChar(c) ==
    IF \E i \in 1..26 : LOWERCASE[i] = c
    THEN UPPERCASE[CHOOSE i \in 1..26 : LOWERCASE[i] = c]
    ELSE c

\* str.lower()
lower(s) == [i \in 1..Len(s) |-> LowerChar(s[i])]

\* str.capitalize(): first character upper-cased, the rest lower-cased
capitalize(s) == [i \in 1..Len(s) |-> IF i = 1 THEN UpperChar(s[i]) ELSE LowerChar(s[i])]

\* `kw in s` for two str
Contains(kw, s) ==
    \E i \in 0..(Len(s) - Len(kw)) : \A j \in 1..Len(kw) : s[i + j] = kw[j]

-----------------------------------------------------------------------------
(* The Classifier: PRODUCT_KEYWORDS of the two entry points, in            *)
(* definition order (a Python dict iterates in insertion order)            *)

APP_PRODUCT_KEYWORDS ==
  <<
    [product |-> "OpenAI API - Chat Completions",
     keywords |-> <<
            <<"c", "h", "a", "t", " ", "c", "o", "m", "p", "l", "e", "t", "i", "o", "n", "s">>,
            <<"g", "p", "t", "-", "4", "o">>,
            <<"g", "p", "t", "-", "4", ".", "1">>,
            <<"g", "p", "t", "-", "4">>,
            <<"g", "p", "t", "-", "3", ".", "5">> >>],
    [product |-> "OpenAI API - Responses",
     keywords |-> <<
            <<"r", "e", "s", "p", "o", "n", "s", "e", "s", " ", "a", "p", "i">>,
            <<"r", "e", "s", "p", "o", "n", "s", "e", "s", " ", "e", "n", "d", "p", "o", "i", "n", "t">>,
            <<"r", "e", "s", "p", "o", "n", "s", "e", " ", "a", "p", "i">> >>],
    [product |-> "OpenAI API - Assistants",
     keywords |-> <<
            <<"a", "s", "s", "i", "s", "t", "a", "n", "t", "s", " ", "a", "p", "i">>,
            <<"a", "s", "s", "i", "s", "t", "a", "n", "t", " ", "a", "p", "i">> >>],
    [product |-> "OpenAI API - Batch",
     keywords |-> <<
            <<"b", "a", "t", "c", "h", " ", "a", "p", "i">>,
            <<"b", "a", "t", "c", "h", " ", "j", "o", "b", "s">>,
            <<"b", "a", "t", "c", "h", " ", "e", "n", "d", "p", "o", "i", "n", "t">> >>],
    [product |-> "OpenAI API - Realtime",
     keywords |-> <<
            <<"r", "e", "a", "l", "t", "i", "m", "e", " ", "a", "p", "i">>,
            <<"w", "e", "b", "r", "t", "c">>,
            <<"r", "e", "a", "l", "t", "i", "m", "e", " ", "c", "o", "n", "n", "e", "c", "t", "i", "o", "n", "s">> >>],
    [product |-> "OpenAI API - Embeddings",
     keywords |-> <<
            <<"e", "m", "b", "e", "d", "d", "i", "n", "g", "s", " ", "a", "p", "i">>,
            <<"e", "m", "b", "e", "d", "d", "i", "n", "g", " ", "a", "p", "i">>,
            <<"e", "m", "b", "e", "d", "d", "i", "n", "g", "s", " ", "e", "n", "d", "p", "o", "i", "n", "t">> >>],
    [product |-> "OpenAI API - Moderation",
     keywords |-> <<
            <<"m", "o", "d", "e", "r", "a", "t", "i", "o", "n", " ", "a", "p", "i">>,
            <<"m", "o", "d", "e", "r", "a", "t", "i", "o", "n", "s", " ", "e", "n", "d", "p", "o", "i", "n", "t">> >>],
    [product |-> "OpenAI API - Vector Stores",
     keywords |-> <<
            <<"v", "e", "c", "t", "o", "r", " ", "s", "t", "o", "r", "e", "s", " ", "a", "p", "i">>,
            <<"v", "e", "c", "t", "o", "r", " ", "s", "t", "o", "r", "e">> >>],
    [product |-> "OpenAI API - Fine-tuning",
     keywords |-> <<
            <<"f", "i", "n", "e", "-", "t", "u", "n", "i", "n", "g">>,
            <<"f", "i", "n", "e", " ", "t", "u", "n", "i", "n", "g">> >>],
    [product |-> "OpenAI API - Images",
     keywords |-> <<
            <<"i", "m", "a", "g", "e", "s", " ", "a", "p", "i">>,
            <<"i", "m", "a", "g", "e", " ", "g", "e", "n", "e", "r", "a", "t", "i", "o", "n">>,
            <<"i", "m", "a", "g", "e", " ", "a", "p", "i">>,
            <<"d", "a", "l", "l", "-", "e">> >>]
  >>

MONITOR_PRODUCT_KEYWORDS ==
  <<
    [product |-> "Chat Completions API",
     keywords |-> <<
            <<"c", "h", "a", "t", " ", "c", "o", "m", "p", "l", "e", "t", "i", "o", "n", "s">>,
            <<"g", "p", "t", "-", "4">>,
            <<"g", "p", "t", "-", "4", "o">>,
            <<"g", "p", "t", "-", "3", ".", "5">>,
            <<"c", "h", "a", "t", "g", "p", "t">> >>],
    [product |-> "Responses API",
     keywords |-> <<
            <<"r", "e", "s", "p", "o", "n", "s", "e", "s", " ", "a", "p", "i">>,
            <<"r", "e", "s", "p", "o", "n", "s", "e", " ", "e", "n", "d", "p", "o", "i", "n", "t">> >>],
    [product |-> "Assistants API",
     keywords |-> <<
            <<"a", "s", "s", "i", "s", "t", "a", "n", "t", "s", " ", "a", "p", "i">>,
            <<"a", "s", "s", "i", "s", "t", "a", "n", "t">> >>],
    [product |-> "Batch API",
     keywords |-> <<
            <<"b", "a", "t", "c", "h", " ", "a", "p", "i">>,
            <<"b", "a", "t", "c", "h", " ", "j", "o", "b">> >>],
    [product |-> "Realtime API",
     keywords |-> <<
            <<"r", "e", "a", "l", "t", "i", "m", "e", " ", "a", "p", "i">>,
            <<"r", "e", "a", "l", "t", "i", "m", "e">> >>],
    [product |-> "Embeddings API",
     keywords |-> <<
            <<"e", "m", "b", "e", "d", "d", "i", "n", "g">>,
            <<"e", "m", "b", "e", "d", "d", "i", "n", "g", "s">> >>],
    [product |-> "Moderation API",
     keywords |-> <<
            <<"m", "o", "d", "e", "r", "a", "t", "i", "o", "n">>,
            <<"m", "o", "d", "e", "r", "a", "t", "e">> >>],
    [product |-> "Vector Stores API",
     keywords |-> <<
            <<"v", "e", "c", "t", "o", "r", " ", "s", "t", "o", "r", "e">>,
            <<"v", "e", "c", "t", "o", "r", " ", "d", "a", "t", "a", "b", "a", "s", "e">> >>],
    [product |-> "Fine-tuning API",
     keywords |-> <<
            <<"f", "i", "n", "e", "-", "t", "u", "n", "e">>,
            <<"f", "i", "n", "e", " ", "t", "u", "n", "i", "n", "g">> >>],
    [product |-> "Image Generation API",
     keywords |-> <<
            <<"i", "m", "a", "g", "e">>,
            <<"d", "a", "l", "l", "-", "e">> >>]
  >>

APP_DEFAULT == "OpenAI Platform / Multiple services"
MONITOR_DEFAULT == "OpenAI Platform / Multiple Services"

\* score = sum(1 for kw in keywords if kw in text_lower)
Score(keywords, text_lower) ==
    Cardinality({k \in 1..Len(keywords) : Contains(keywords[k], text_lower)})

BeatsBestLastWins(score, best_score) == score >= best_score

\* if score > best_score:
BeatsBest(score, best_score) == score > best_score

\* the for loop of detect_product, from table row i on
RECURSIVE DetectLoop(_, _, _, _, _)
DetectLoop(table, text_lower, i, best_match, best_score) ==
    IF i > Len(table)
    THEN best_match
    ELSE LET score == Score(table[i].keywords, text_lower)
         IN  IF BeatsBest(score, best_score)
             THEN DetectLoop(table, text_lower, i + 1, table[i].product, score)
             ELSE DetectLoop(table, text_lower, i + 1, best_match, best_score)

\* app.detect_product
detect_product(t) == DetectLoop(APP_PRODUCT_KEYWORDS, lower(t), 1, APP_DEFAULT, 0)

\* status_monitor.detect_product
monitor_detect_product(t) ==
    DetectLoop(MONITOR_PRODUCT_KEYWORDS, lower(t), 1, MONITOR_DEFAULT, 0)

-----------------------------------------------------------------------------
(* The Log Store: log_to_json and the JSON text of the file                *)

MaxAppends == 2       \* appends one writer performs in StoreSpec

\* A JSON text is a sequence of tokens: "[" "]" "{" "}", a key, a value
Punct(p) == [t |-> p, v |-> 0]
Key(k) == [t |-> "key", v |-> k]
Val(x) == [t |-> "val", v |-> x]

RECORD_KEYS == <<"timestamp", "product", "event", "status">>

\* json.dump of one dict: its items in insertion order
DumpDict(d, keys) ==
    <<Punct("{")>>
    \o [i \in 1..(2 * Len(keys)) |->
            IF i % 2 = 1 THEN Key(keys[(i + 1) \div 2]) ELSE Val(d[keys[i \div 2]])]
    \o <<Punct("}")>>

RECURSIVE DumpItems(_, _)
DumpItems(list, i) ==
    IF i > Len(list) THEN <<>>
    ELSE DumpDict(list[i], RECORD_KEYS) \o DumpItems(list, i + 1)

\* json.dump(list, f): the text written for a list of Log Records
JsonDump(list) == <<Punct("[")>> \o DumpItems(list, 1) \o <<Punct("]")>>

\* the dict read from tokens i+1 .. j-1, where token i is "{" and token j is "}"
LoadDict(tokens, i, j) ==
    LET keyAt == {p \in (i + 1)..(j - 1) : tokens[p].t = "key"}
    IN  [k \in {tokens[p].v : p \in keyAt} |->
            tokens[(CHOOSE p \in keyAt : tokens[p].v = k) + 1].v]

RECURSIVE LoadItems(_, _)
LoadItems(tokens, i) ==
    IF tokens[i].t # "{" THEN <<>>
    ELSE LET j == CHOOSE q \in i..Len(tokens) :
                      /\ tokens[q].t = "}"
                      /\ \A r \in i..(q - 1) : tokens[r].t # "}"
         IN  <<LoadDict(tokens, i, j)>> \o LoadItems(tokens, j + 1)

\* json.load(f) raises JSONDecodeError on an empty (just truncated) file and
\* on a text with data after the list's closing bracket
JsonLoadFails(tokens) ==
    \/ tokens = <<>>
    \/ tokens[1].t # "["
    \/ \E p \in 1..(Len(tokens) - 1) : tokens[p].t = "]"

\* json.load(f): the list of dicts the text denotes
JsonLoad(tokens) == LoadItems(tokens, 2)

\* the file: absent, or present with its content
Missing == [exists |-> FALSE, content |-> <<>>]
FileWith(tokens) == [exists |-> TRUE, content |-> tokens]

\* open(LOG_FILE, "w"): the file exists and is empty until the dump is flushed
Truncated == FileWith(<<>>)

\* closing a handle opened with "w": the dumped text is written from offset 0;
\* what another handle wrote beyond its end in the meantime stays in the file
Flush(f, tokens) ==
    FileWith(tokens \o SubSeq(f.content, Len(tokens) + 1, Len(f.content)))

NeedsInitAlways(f) == TRUE

\* if not os.path.exists(LOG_FILE):
NeedsInit(f) == ~f.exists

ExistingPrepend(existing, data) == <<data>> \o existing

\* existing.append(data)
ExistingAppend(existing, data) == Append(existing, data)

\* log_to_json(data) run to completion by one process: the file afterwards
log_to_json(f, data) ==
    LET f1 == IF NeedsInit(f) THEN FileWith(JsonDump(<<>>)) ELSE f
        existing == JsonLoad(f1.content)
    IN  FileWith(JsonDump(ExistingAppend(existing, data)))

-----------------------------------------------------------------------------
(* Feed entries and datetimes                                              *)

MaxWall == 2          \* wall-clock readings 1..MaxWall appear in the feed
MaxHist == 4          \* cycles whose fetched timestamp the history records

\* UTC offsets the published strings carry
Offsets == {0, 1}

None == [kind |-> "None"]

\* parser.parse(published): an aware datetime, wall-clock reading and UTC offset
parse(published) ==
    [kind |-> "datetime", wall |-> published.wall, utcoffset |-> published.zone]

\* the point in time an aware datetime denotes; aware datetimes compare by it
Instant(dt) == dt.wall - dt.utcoffset

\* dt.strftime("%Y-%m-%d %H:%M:%S"): the wall-clock reading, the offset is not printed
format_timestamp(dt) == dt.wall

SPACE == <<" ">>

TITLE_ERRORS == <<"E", "l", "e", "v", "a", "t", "e", "d", " ", "e", "r", "r", "o", "r", "s">>
SUMMARY_GPT == <<"I", "n", "v", "e", "s", "t", "i", "g", "a", "t", "i", "n", "g", " ", "g", "p", "t", "-", "4", "o">>
TITLE_IMAGE == <<"I", "m", "a", "g", "e">>
SUMMARY_DEGRADED == <<"D", "e", "g", "r", "a", "d", "e", "d", " ", "p", "e", "r", "f", "o", "r", "m", "a", "n", "c", "e">>

EntryTexts ==
    { [title |-> TITLE_ERRORS, summary |-> SUMMARY_GPT],
      [title |-> TITLE_IMAGE, summary |-> SUMMARY_DEGRADED] }

Entries ==
    { [published |-> [wall |-> w, zone |-> z], title |-> x.title, summary |-> x.summary] :
        w \in 1..MaxWall, z \in Offsets, x \in EntryTexts }

\* an older entry, listed after the newest one
OlderEntry ==
    [published |-> [wall |-> 0, zone |-> 0], title |-> TITLE_IMAGE, summary |-> SUMMARY_GPT]

\* feedparser.parse(RSS_URL).entries: newest first; empty when the feed is
\* empty or unreachable
FeedSnapshots ==
    {<<>>} \cup {<<e>> : e \in Entries}
           \cup {<<e, OlderEntry>> : e \in {x \in Entries : x.published.zone = 0}}

\* detect_product(entry.title + " " + entry.summary), tabulated for the feed's texts
EntryProduct ==
    [x \in EntryTexts \cup {[title |-> OlderEntry.title, summary |-> OlderEntry.summary]} |->
        monitor_detect_product(x.title \o SPACE \o x.summary)]

\* the dict print_incident builds for an entry
log_data(entry) ==
    [timestamp |-> format_timestamp(parse(entry.published)),
     product |-> EntryProduct[[title |-> entry.title, summary |-> entry.summary]],
     event |-> entry.title,
     status |-> entry.summary]

\* print_incident(entry): the file after its log_to_json call
print_incident(f, entry) == log_to_json(f, log_data(entry))

NewerOrEqual(timestamp, last) == Instant(timestamp) >= Instant(last)

\* if timestamp > last_seen:
Newer(timestamp, last) == Instant(timestamp) > Instant(last)

\* a Log Record left in the file by an earlier run
OLD_RECORD ==
    [timestamp |-> 0, product |-> MONITOR_DEFAULT, event |-> TITLE_ERRORS,
     status |-> SUMMARY_DEGRADED]

\* the files a run can find when it starts
StartFiles == {Missing, FileWith(JsonDump(<<>>)), FileWith(JsonDump(<<OLD_RECORD>>))}

Readable(f) == f.exists /\ ~JsonLoadFails(f.content)

\* the records a reader of the file gets (none from a missing file)
RecordsOf(f) == IF Readable(f) THEN JsonLoad(f.content) ELSE <<>>

-----------------------------------------------------------------------------
(* Initial values of the components a specification does not run           *)

Writers == {1, 2}

ClassifierIdle ==
    /\ text = <<>>
    /\ nfrag = 0
    /\ app_product = ""
    /\ monitor_product = ""

WritersIdle ==
    /\ w_pc = [w \in Writers |-> "idle"]
    /\ w_data = [w \in Writers |-> OLD_RECORD]
    /\ w_existing = [w \in Writers |-> <<>>]
    /\ w_left = [w \in Writers |-> 0]
    /\ w_quota = [w \in Writers |-> 0]
    /\ completed = <<>>
    /\ overlapped = FALSE

StoreIdle ==
    /\ file = Missing
    /\ initial = <<>>
    /\ WritersIdle

PollerIdle ==
    /\ pc = "off"
    /\ feed = <<>>
    /\ last_seen = None
    /\ outcome = "start"
    /\ hist = <<>>
    /\ appended = <<>>

NoRequest == [kind |-> "none"]
NoLine == [kind |-> "none"]

WebhookIdle ==
    /\ request = NoRequest
    /\ response = 0
    /\ log_line = NoLine
    /\ emitted = 0
    /\ calls = 0
    /\ valid_calls = 0

-----------------------------------------------------------------------------
(* The Feed Poller: track_status                                           *)

Empty == -1                 \* history mark of a cycle whose feed was empty
HistOverflow == <<-2>>      \* the history once more than MaxHist cycles ran

RecordHist(h, x) ==
    IF h = HistOverflow THEN h
    ELSE IF Len(h) < MaxHist THEN Append(h, x) ELSE HistOverflow

\* last_seen = None at import; the log file is whatever earlier runs left;
\* h is the history the run starts with
PollerStart(h) ==
    /\ pc = "fetch"
    /\ feed = <<>>
    /\ last_seen = None
    /\ outcome = "start"
    /\ hist = h
    /\ appended = <<>>
    /\ file \in StartFiles
    /\ initial = RecordsOf(file)
    /\ WritersIdle
    /\ ClassifierIdle
    /\ WebhookIdle

PollerInit == PollerStart(<<>>)

\* what the poller leaves alone: the other components and the writers' locals
PollerFrame ==
    UNCHANGED <<classifierVars, webhookVars, initial, w_pc, w_data, w_existing,
                w_left, w_quota, completed, overlapped>>

PollEmptyForgets ==
    /\ pc = "fetch"
    /\ feed' = <<>>
    /\ outcome' = "empty"
    /\ hist' = RecordHist(hist, Empty)
    /\ pc' = "sleep"
    /\ last_seen' = None
    /\ UNCHANGED <<appended, file>>
    /\ PollerFrame

PollEmptyFatal ==
    /\ pc = "fetch"
    /\ feed' = <<>>
    /\ outcome' = "empty"
    /\ hist' = RecordHist(hist, Empty)
    /\ pc' = "off"
    /\ UNCHANGED <<last_seen, appended, file>>
    /\ PollerFrame

\* feed = feedparser.parse(RSS_URL); if not feed.entries: print warning; (sleep follows)
PollEmpty ==
    /\ pc = "fetch"
    /\ feed' = <<>>
    /\ outcome' = "empty"
    /\ hist' = RecordHist(hist, Empty)
    /\ pc' = "sleep"
    /\ UNCHANGED <<last_seen, appended, file>>
    /\ PollerFrame

\* if last_seen is None: last_seen = timestamp; print("Initialized...")
PollInit ==
    /\ pc = "fetch"
    /\ \E snapshot \in FeedSnapshots \ {<<>>} :
         LET newest == snapshot[1]
             timestamp == parse(newest.published)
         IN  /\ last_seen = None
             /\ feed' = snapshot
             /\ last_seen' = timestamp
             /\ outcome' = "init"
             /\ hist' = RecordHist(hist, Instant(timestamp))
    /\ pc' = "sleep"
    /\ UNCHANGED <<appended, file>>
    /\ PollerFrame

\* else: if timestamp > last_seen: print_incident(newest); last_seen = timestamp
PollNew ==
    /\ pc = "fetch"
    /\ \E snapshot \in FeedSnapshots \ {<<>>} :
         LET newest == snapshot[1]
             timestamp == parse(newest.published)
         IN  /\ last_seen # None
             /\ Newer(timestamp, last_seen)
             /\ feed' = snapshot
             /\ file' = print_incident(file, newest)
             /\ appended' = Append(appended, newest)
             /\ last_seen' = timestamp
             /\ outcome' = "incident"
             /\ hist' = RecordHist(hist, Instant(timestamp))
    /\ pc' = "sleep"
    /\ PollerFrame

\* else: timestamp <= last_seen: nothing is printed or stored
PollNoChange ==
    /\ pc = "fetch"
    /\ \E snapshot \in FeedSnapshots \ {<<>>} :
         LET newest == snapshot[1]
             timestamp == parse(newest.published)
         IN  /\ last_seen # None
             /\ ~Newer(timestamp, last_seen)
             /\ feed' = snapshot
             /\ outcome' = "nochange"
             /\ hist' = RecordHist(hist, Instant(timestamp))
    /\ pc' = "sleep"
    /\ UNCHANGED <<last_seen, appended, file>>
    /\ PollerFrame

\* time.sleep(30), then the next iteration of `while True`
Sleep ==
    /\ pc = "sleep"
    /\ pc' = "fetch"
    /\ UNCHANGED <<feed, last_seen, outcome, hist, appended, file>>
    /\ PollerFrame

PollerNext == PollEmpty \/ PollInit \/ PollNew \/ PollNoChange \/ Sleep

PollerSpec == PollerInit /\ [][PollerNext]_vars

\* the loop is the only thread of its process: it keeps running.  The
\* history of fetched timestamps is not recorded in these runs.
FairPollerSpec ==
    PollerStart(HistOverflow) /\ [][PollerNext]_vars /\ WF_vars(PollerNext)

-----------------------------------------------------------------------------
(* The Classifier on texts built from fragments: both detect_product       *)
(* functions are called on the same text                                   *)

MaxFragments == 3     \* fragments a text is built from

\* pieces of incident titles and update bodies, in the case they are written in
Fragments ==
    { <<"g", "p", "t", "-", "4", "o">>,
      <<"G", "P", "T", "-", "3", ".", "5">>,
      <<"D", "A", "L", "L", "-", "E">>,
      <<"E", "m", "b", "e", "d", "d", "i", "n", "g", "s", " ", "A", "P", "I">>,
      <<"r", "e", "a", "l", "t", "i", "m", "e">>,
      <<"A", "s", "s", "i", "s", "t", "a", "n", "t">>,
      <<" ", "o", "u", "t", "a", "g", "e", " ">>,
      <<"V", "e", "c", "t", "o", "r", " ", "S", "t", "o", "r", "e">> }

ClassifierInit ==
    /\ text = <<>>
    /\ nfrag = 0
    /\ app_product = ""
    /\ monitor_product = ""
    /\ StoreIdle
    /\ PollerIdle
    /\ WebhookIdle

ClassifierFrame == UNCHANGED <<storeVars, pollerVars, webhookVars>>

\* the caller extends the text it is about to classify
Extend ==
    /\ nfrag < MaxFragments
    /\ app_product = ""
    /\ monitor_product = ""
    /\ \E f \in Fragments : text' = text \o f
    /\ nfrag' = nfrag + 1
    /\ UNCHANGED <<app_product, monitor_product>>
    /\ ClassifierFrame

\* product = detect_product(combined_text) in app.py
ClassifyApp ==
    /\ app_product = ""
    /\ app_product' = detect_product(text)
    /\ UNCHANGED <<text, nfrag, monitor_product>>
    /\ ClassifierFrame

\* product = detect_product(entry.title + " " + entry.summary) in status_monitor.py
ClassifyMonitor ==
    /\ monitor_product = ""
    /\ monitor_product' = monitor_detect_product(text)
    /\ UNCHANGED <<text, nfrag, app_product>>
    /\ ClassifierFrame

ClassifierNext == Extend \/ ClassifyApp \/ ClassifyMonitor

ClassifierSpec == ClassifierInit /\ [][ClassifierNext]_vars

\* score(label) for every row of a table
Scores(table, t) == [i \in 1..Len(table) |-> Score(table[i].keywords, lower(t))]

MaxScore(table, t) ==
    LET sc == Scores(table, t)
    IN  CHOOSE m \in {sc[i] : i \in 1..Len(table)} : \A i \in 1..Len(table) : sc[i] <= m

\* r is the earliest-defined label with the maximum score, or the default
\* label when every score is 0
EarliestBest(table, default, t, r) ==
    LET sc == Scores(table, t)
        mx == MaxScore(table, t)
    IN  IF mx = 0
        THEN r = default
        ELSE \E i \in 1..Len(table) :
                 /\ r = table[i].product
                 /\ sc[i] = mx
                 /\ \A j \in 1..(i - 1) : sc[j] < mx

\* C5: in both entry points detect_product returns exactly one label: the
\* earliest-defined label of the Keyword Table among those whose number of
\* keywords occurring in the lowercased text is the maximum, when that
\* maximum is above 0, and the catch-all default label when every score is 0.
C5_EarliestLabelWithMaxScore ==
    /\ app_product # "" =>
          EarliestBest(APP_PRODUCT_KEYWORDS, APP_DEFAULT, text, app_product)
    /\ monitor_product # "" =>
          EarliestBest(MONITOR_PRODUCT_KEYWORDS, MONITOR_DEFAULT, text, monitor_product)

\* a text on which two labels tie at a maximum above 0 was classified by
\* both entry points, and one on which no keyword occurs exists as well
C5_Witness ==
    /\ app_product # ""
    /\ monitor_product # ""
    /\ MaxScore(APP_PRODUCT_KEYWORDS, text) > 0
    /\ Cardinality({i \in 1..Len(APP_PRODUCT_KEYWORDS) :
            Scores(APP_PRODUCT_KEYWORDS, text)[i] = MaxScore(APP_PRODUCT_KEYWORDS, text)}) >= 2
    /\ Cardinality({i \in 1..Len(MONITOR_PRODUCT_KEYWORDS) :
            Scores(MONITOR_PRODUCT_KEYWORDS, text)[i]
                = MaxScore(MONITOR_PRODUCT_KEYWORDS, text)}) >= 2

-----------------------------------------------------------------------------
(* The Log Store under one or two writer processes: log_to_json step by    *)
(* step.  Nothing in the code locks the file, so the steps of two calls    *)
(* interleave freely.                                                      *)

\* the records the writers append
StoreRecords ==
    { log_data([published |-> [wall |-> 1, zone |-> 0], title |-> x.title,
                summary |-> x.summary]) : x \in EntryTexts }

\* writer 1 always appends; writer 2 is absent when its quota is 0
StoreInit ==
    /\ file \in StartFiles
    /\ initial = RecordsOf(file)
    /\ w_pc = [w \in Writers |-> "idle"]
    /\ w_data = [w \in Writers |-> OLD_RECORD]
    /\ w_existing = [w \in Writers |-> <<>>]
    /\ w_quota \in {q \in [Writers -> 0..MaxAppends] : q[1] >= 1}
    /\ w_left = w_quota
    /\ completed = <<>>
    /\ overlapped = FALSE
    /\ PollerIdle
    /\ ClassifierIdle
    /\ WebhookIdle

StoreFrame == UNCHANGED <<classifierVars, pollerVars, webhookVars, initial, w_quota>>

InCall(w) == w_pc[w] \notin {"idle", "crashed"}

\* log_to_json(data) is called; os.makedirs("logs", exist_ok=True)
Begin(w) ==
    /\ w_pc[w] = "idle"
    /\ w_left[w] > 0
    /\ \E data \in StoreRecords : w_data' = [w_data EXCEPT ![w] = data]
    /\ w_left' = [w_left EXCEPT ![w] = @ - 1]
    /\ w_pc' = [w_pc EXCEPT ![w] = "check"]
    /\ overlapped' = (overlapped \/ \E o \in Writers \ {w} : InCall(o))
    /\ UNCHANGED <<file, w_existing, completed>>
    /\ StoreFrame

\* if not os.path.exists(LOG_FILE):
Check(w) ==
    /\ w_pc[w] = "check"
    /\ w_pc' = [w_pc EXCEPT ![w] = IF NeedsInit(file) THEN "create_open" ELSE "read"]
    /\ UNCHANGED <<file, w_data, w_existing, w_left, completed, overlapped>>
    /\ StoreFrame

\* with open(LOG_FILE, "w") as f:
CreateOpen(w) ==
    /\ w_pc[w] = "create_open"
    /\ file' = Truncated
    /\ w_pc' = [w_pc EXCEPT ![w] = "create_dump"]
    /\ UNCHANGED <<w_data, w_existing, w_left, completed, overlapped>>
    /\ StoreFrame

\* json.dump([], f, indent=2), flushed when the with block closes f
CreateDump(w) ==
    /\ w_pc[w] = "create_dump"
    /\ file' = Flush(file, JsonDump(<<>>))
    /\ w_pc' = [w_pc EXCEPT ![w] = "read"]
    /\ UNCHANGED <<w_data, w_existing, w_left, completed, overlapped>>
    /\ StoreFrame

\* with open(LOG_FILE, "r") as f: existing = json.load(f); existing.append(data)
\* (an uncaught JSONDecodeError ends the writer)
Read(w) ==
    /\ w_pc[w] = "read"
    /\ IF JsonLoadFails(file.content)
       THEN /\ w_pc' = [w_pc EXCEPT ![w] = "crashed"]
            /\ UNCHANGED w_existing
       ELSE /\ w_existing' =
                 [w_existing EXCEPT ![w] = ExistingAppend(JsonLoad(file.content), w_data[w])]
            /\ w_pc' = [w_pc EXCEPT ![w] = "write_open"]
    /\ UNCHANGED <<file, w_data, w_left, completed, overlapped>>
    /\ StoreFrame

\* with open(LOG_FILE, "w") as f:
WriteOpen(w) ==
    /\ w_pc[w] = "write_open"
    /\ file' = Truncated
    /\ w_pc' = [w_pc EXCEPT ![w] = "write_dump"]
    /\ UNCHANGED <<w_data, w_existing, w_left, completed, overlapped>>
    /\ StoreFrame

\* json.dump(existing, f, indent=2), flushed when the with block closes f;
\* log_to_json returns
WriteDump(w) ==
    /\ w_pc[w] = "write_dump"
    /\ file' = Flush(file, JsonDump(w_existing[w]))
    /\ w_pc' = [w_pc EXCEPT ![w] = "idle"]
    /\ completed' = Append(completed, w_data[w])
    /\ UNCHANGED <<w_data, w_existing, w_left, overlapped>>
    /\ StoreFrame

StoreNext ==
    \E w \in Writers :
        \/ Begin(w)
        \/ Check(w)
        \/ CreateOpen(w)
        \/ CreateDump(w)
        \/ Read(w)
        \/ WriteOpen(w)
        \/ WriteDump(w)

StoreSpec == StoreInit /\ [][StoreNext]_vars

-----------------------------------------------------------------------------
(* The Webhook Receiver: handle_openai_status and extract_latest_update    *)

MaxCalls == 2         \* webhook calls handled in WebhookSpec

\* str literals of app.py and the texts the modelled payloads carry
UNKNOWN_INCIDENT ==
    <<"U", "n", "k", "n", "o", "w", "n", " ", "i", "n", "c", "i", "d", "e",
      "n", "t">>

UNKNOWN ==
    <<"u", "n", "k", "n", "o", "w", "n">>

INCIDENT_STATUS_PREFIX ==
    <<"I", "n", "c", "i", "d", "e", "n", "t", " ", "s", "t", "a", "t", "u",
      "s", ":", " ">>

IMPACT_SUFFIX ==
    <<" ", "i", "m", "p", "a", "c", "t">>

NONE_TEXT ==
    <<"N", "o", "n", "e">>

NAME_CHAT ==
    <<"C", "h", "a", "t", " ", "C", "o", "m", "p", "l", "e", "t", "i", "o",
      "n", "s", " ", "A", "P", "I", " ", "l", "a", "t", "e", "n", "c", "y">>

BODY_OLD ==
    <<"D", "A", "L", "L", "-", "E", " ", "e", "r", "r", "o", "r", "s">>

STATUS_INVESTIGATING ==
    <<"i", "n", "v", "e", "s", "t", "i", "g", "a", "t", "i", "n", "g">>

STATUS_MONITORING ==
    <<"m", "o", "n", "i", "t", "o", "r", "i", "n", "g">>

IMPACT_MAJOR ==
    <<"m", "a", "j", "o", "r">>

PAGE_MAJOR_OUTAGE ==
    <<"M", "a", "j", "o", "r", " ", "S", "y", "s", "t", "e", "m", " ", "O",
      "u", "t", "a", "g", "e">>

\* JSON values as request.json() returns them: None, str, list, dict
JNull == [t |-> "null", v |-> <<>>]
JStr(x) == [t |-> "str", v |-> x]
JList(l) == [t |-> "list", v |-> l]
JObj(o) == [t |-> "obj", v |-> o]

\* a dict with no key
EmptyDict == [k \in {} |-> JNull]

\* d.get(k, default) on the dict inside a JObj
get(d, k, default) == IF k \in DOMAIN d.v THEN d.v[k] ELSE default

\* the truth value Python gives a value in `not x`, `x or y`, `if x`
Truthy(x) ==
    CASE x.t = "null" -> FALSE
      [] x.t = "str" -> x.v # <<>>
      [] x.t = "list" -> x.v # <<>>
      [] x.t = "obj" -> DOMAIN x.v # {}

\* how an f-string prints a value
str(x) == IF x.t = "null" THEN NONE_TEXT ELSE x.v

LatestFirst(updates) == updates.v[1]

\* latest = updates[-1]
Latest(updates) == updates.v[Len(updates.v)]

\* extract_latest_update(incident), for incident_updates absent, null or a list of dicts
extract_latest_update(incident) ==
    LET given == get(incident, "incident_updates", JNull)
        updates == IF Truthy(given) THEN given ELSE JList(<<>>)
    IN  IF ~Truthy(updates)
        THEN INCIDENT_STATUS_PREFIX \o str(get(incident, "status", JStr(UNKNOWN)))
        ELSE LET latest == Latest(updates)
                 body == get(latest, "body", JNull)
             IN  IF Truthy(body)
                 THEN body.v
                 ELSE INCIDENT_STATUS_PREFIX \o str(get(latest, "status", JStr(UNKNOWN)))

\* what one call does: the HTTP status, and the line given to logger.info if any.
\* 400 is the HTTPException raised by the handler; 500 is what the server answers
\* when the handler ends in an uncaught AttributeError.
Answer(status, line) == [status |-> status, line |-> line]

\* format_log_line(product, status_description, latest_body), without its clock reading
format_log_line(product, status_description, latest_body) ==
    [kind |-> "line", product |-> product, status_description |-> status_description,
     latest_body |-> latest_body]

\* lines 164-183, for an incident and a page that are dicts
HandleIncident(incident, page) ==
    LET incident_name == get(incident, "name", JStr(UNKNOWN_INCIDENT))
        incident_status == get(incident, "status", JStr(UNKNOWN))
        page_status_desc == get(page, "status_description", JNull)
        impact == get(incident, "impact", JNull)
        latest_body == extract_latest_update(incident)
        combined_text == str(incident_name) \o SPACE \o latest_body
        product == detect_product(combined_text)
    IN  IF Truthy(page_status_desc)
        THEN Answer(200, format_log_line(product, page_status_desc.v, latest_body))
        ELSE IF Truthy(impact)
        THEN IF impact.t # "str"
             THEN Answer(500, NoLine)      \* impact.capitalize() raises
             ELSE Answer(200, format_log_line(product,
                                 capitalize(impact.v) \o IMPACT_SUFFIX, latest_body))
        ELSE IF incident_status.t # "str"
             THEN Answer(500, NoLine)      \* incident_status.capitalize() raises
             ELSE Answer(200, format_log_line(product,
                                 capitalize(incident_status.v), latest_body))

HasIncidentKey(payload) == "incident" \in DOMAIN payload.v

\* if not incident:
IncidentMissing(incident) == ~Truthy(incident)

\* handle_openai_status(request)
handle_openai_status(body) ==
    IF body.kind = "invalid"
    THEN Answer(400, NoLine)               \* request.json() raised: "Invalid JSON"
    ELSE LET payload == body.value
         IN  IF payload.t # "obj"
             THEN Answer(500, NoLine)      \* payload.get raises
             ELSE LET incident == get(payload, "incident", JNull)
                      page == get(payload, "page", JObj(EmptyDict))
                  IN  IF IncidentMissing(incident)
                      THEN Answer(400, NoLine)   \* "No incident object in payload"
                      ELSE IF incident.t # "obj" \/ page.t # "obj"
                      THEN Answer(500, NoLine)   \* incident.get or page.get raises
                      ELSE HandleIncident(incident, page)

\* a dict from the fields that are present: pairs <<key, value>>, value Absent to omit
Absent == [t |-> "absent", v |-> <<>>]
Dict(pairs) ==
    LET present == {i \in 1..Len(pairs) : pairs[i][2].t # "absent"}
    IN  JObj([k \in {pairs[i][1] : i \in present} |->
                 pairs[CHOOSE i \in present : pairs[i][1] = k][2]])

\* the incident updates of the modelled payloads
Updates ==
    { Dict(<< <<"body", b>>, <<"status", st>> >>) :
        b \in {Absent, JStr(<<>>), JStr(SUMMARY_GPT)},
        st \in {Absent, JStr(STATUS_MONITORING)} }

OlderUpdate == Dict(<< <<"body", JStr(BODY_OLD)>>, <<"status", JStr(STATUS_INVESTIGATING)>> >>)

UpdateLists ==
    {Absent, JNull, JList(<<>>)}
        \cup {JList(<<u>>) : u \in Updates}
        \cup {JList(<<OlderUpdate, u>>) : u \in Updates}

\* the incident objects of the modelled payloads; the last one carries an id only
Incidents ==
    { Dict(<< <<"name", n>>, <<"status", st>>, <<"impact", im>>, <<"incident_updates", us>> >>) :
        n \in {Absent, JStr(NAME_CHAT)},
        st \in {Absent, JNull, JStr(STATUS_INVESTIGATING)},
        im \in {Absent, JStr(IMPACT_MAJOR)},
        us \in UpdateLists }
    \cup { Dict(<< <<"id", JStr(<<"1">>)>> >>) }

Pages == {Absent, JNull, Dict(<< <<"status_description", JStr(PAGE_MAJOR_OUTAGE)>> >>)}

\* the request bodies: not JSON, a JSON array, or a JSON object
Bodies ==
    { [kind |-> "invalid", value |-> JNull],
      [kind |-> "json", value |-> JList(<<>>)] }
    \cup { [kind |-> "json", value |-> Dict(<< <<"incident", inc>>, <<"page", pg>> >>)] :
             inc \in {Absent, JNull} \cup Incidents, pg \in Pages }

\* handle_openai_status tabulated over the modelled bodies
Handled == [b \in Bodies |-> handle_openai_status(b)]

\* the body is a JSON object that contains an "incident" object
IsValidCall(b) ==
    /\ b.kind = "json"
    /\ b.value.t = "obj"
    /\ HasIncidentKey(b.value)
    /\ b.value.v["incident"].t = "obj"

WebhookInit ==
    /\ request = NoRequest
    /\ response = 0
    /\ log_line = NoLine
    /\ emitted = 0
    /\ calls = 0
    /\ valid_calls = 0
    /\ StoreIdle
    /\ PollerIdle
    /\ ClassifierIdle

WebhookFrame == UNCHANGED <<classifierVars, storeVars, pollerVars>>

\* POST /webhooks/openai-status: the call is rejected with an HTTPException
\* or ends in an uncaught exception
HandleRejected ==
    /\ calls < MaxCalls
    /\ \E b \in Bodies :
         /\ Handled[b].status # 200
         /\ request' = b
         /\ response' = Handled[b].status
         /\ log_line' = NoLine
         /\ valid_calls' = valid_calls + (IF IsValidCall(b) THEN 1 ELSE 0)
    /\ calls' = calls + 1
    /\ UNCHANGED emitted
    /\ WebhookFrame

\* POST /webhooks/openai-status: logger.info(log_line); return {"ok": True}
HandleLogged ==
    /\ calls < MaxCalls
    /\ \E b \in Bodies :
         /\ Handled[b].status = 200
         /\ request' = b
         /\ response' = 200
         /\ log_line' = Handled[b].line
         /\ valid_calls' = valid_calls + (IF IsValidCall(b) THEN 1 ELSE 0)
    /\ emitted' = emitted + 1
    /\ calls' = calls + 1
    /\ WebhookFrame

WebhookNext == HandleRejected \/ HandleLogged

WebhookSpec == WebhookInit /\ [][WebhookNext]_vars

-----------------------------------------------------------------------------
(* Properties of the Webhook Receiver                                      *)

\* the incident object of a valid call
IncidentOf(b) == b.value.v["incident"]

\* its updates sequence, empty when the field is absent, null or empty
UpdatesOf(b) ==
    LET given == get(IncidentOf(b), "incident_updates", JNull)
    IN  IF given.t = "list" THEN given.v ELSE <<>>

\* "Incident status: <status>" for the status field of a dict, "unknown" when
\* the dict has no such field
FallbackFrom(d) ==
    INCIDENT_STATUS_PREFIX \o (IF "status" \in DOMAIN d.v THEN str(d.v["status"]) ELSE UNKNOWN)

\* C6: a call whose body is not parseable, or whose payload lacks an
\* "incident" object, ends in the 400 failure and emits no log line.
C6_MalformedInputIs400 ==
    (calls > 0 /\ ~IsValidCall(request)) => (response = 400 /\ log_line = NoLine)

\* C7: every call whose body is a JSON object containing an "incident"
\* object, whatever its name, status, impact and incident_updates are, is
\* acknowledged and emits exactly one log line, so the lines emitted are as
\* many as the valid calls.
C7_OneLinePerValidCall ==
    /\ (calls > 0 /\ IsValidCall(request)) => (response = 200 /\ log_line # NoLine)
    /\ emitted = valid_calls

\* C8 as stated: the latest-update text is the body of the last update
\* whenever the updates sequence is non-empty, and otherwise the fallback
\* string, which embeds the incident's own status.
C8_LastBodyWheneverUpdatesExist ==
    (response = 200) =>
        IF UpdatesOf(request) # <<>>
        THEN LET latest == UpdatesOf(request)[Len(UpdatesOf(request))]
             IN  /\ "body" \in DOMAIN latest.v
                 /\ log_line.latest_body = latest.v["body"].v
        ELSE log_line.latest_body = FallbackFrom(IncidentOf(request))

\* C8, amended: the latest-update text is the body of the last update when
\* the updates sequence is non-empty and that body is present and non-empty;
\* it is the fallback string embedding the incident's own status ("unknown"
\* if the incident has none) when the sequence is empty or absent; and it is
\* the fallback string embedding the last update's status ("unknown" if that
\* update has none) when the last update's body is absent or empty.
C8_LastBodyOrFallback ==
    (response = 200) =>
        IF UpdatesOf(request) = <<>>
        THEN log_line.latest_body = FallbackFrom(IncidentOf(request))
        ELSE LET latest == UpdatesOf(request)[Len(UpdatesOf(request))]
             IN  IF "body" \in DOMAIN latest.v /\ latest.v["body"].v # <<>>
                 THEN log_line.latest_body = latest.v["body"].v
                 ELSE log_line.latest_body = FallbackFrom(latest)

\* a logged call whose two updates end with one that has no body text, whose
\* status differs from the incident's own: the text names the update's status
C8_Witness ==
    /\ response = 200
    /\ Len(UpdatesOf(request)) = 2
    /\ "body" \notin DOMAIN UpdatesOf(request)[2].v
    /\ "status" \in DOMAIN UpdatesOf(request)[2].v
    /\ "status" \in DOMAIN IncidentOf(request).v
    /\ log_line.latest_body = INCIDENT_STATUS_PREFIX \o STATUS_MONITORING
    /\ log_line.latest_body # FallbackFrom(IncidentOf(request))

-----------------------------------------------------------------------------
(* Properties of the Log Store                                             *)

\* no log_to_json call is in progress
Quiescent == \A w \in Writers : ~InCall(w)

\* C4: with a single writer, starting from a missing file or from a file
\* holding a sequence S, the file after N completed appends holds S followed
\* by exactly the N records in append order, each with its four fields
\* unchanged; no append fails, alters or removes a record already stored.
C4_SingleWriterRoundTrip ==
    w_quota[2] = 0 =>
        /\ w_pc[1] # "crashed"
        /\ w_pc[1] = "idle" =>
              /\ Len(completed) = w_quota[1] - w_left[1]
              /\ completed # <<>> => Readable(file)
              /\ RecordsOf(file) = initial \o completed
              /\ \A i \in 1..Len(RecordsOf(file)) :
                    DOMAIN RecordsOf(file)[i] = {RECORD_KEYS[k] : k \in 1..Len(RECORD_KEYS)}

\* one writer appended two different records to a file that already held one
C4_Witness ==
    /\ w_quota[2] = 0
    /\ w_pc[1] = "idle"
    /\ initial # <<>>
    /\ Len(completed) = 2
    /\ completed[1] # completed[2]
    /\ RecordsOf(file) = initial \o completed

\* C10: log_to_json is a sequence of unlocked steps.  As long as no two
\* calls were ever in progress at once (the single-writer assumption) no
\* call fails and no completed append is lost; a completed append can be
\* missing from the file only after two calls overlapped, and the record of
\* the call that completed last is then still the last one of a readable file.
C10_LossOnlyWhenWritersOverlap ==
    Quiescent =>
        /\ ~overlapped =>
              /\ \A w \in Writers : w_pc[w] # "crashed"
              /\ completed # <<>> => Readable(file)
              /\ Len(RecordsOf(file)) = Len(initial) + Len(completed)
        /\ (Readable(file) /\ completed # <<>>) =>
              /\ Len(RecordsOf(file)) <= Len(initial) + Len(completed)
              /\ RecordsOf(file) # <<>>
              /\ RecordsOf(file)[Len(RecordsOf(file))] = completed[Len(completed)]

\* the lost update: two writers each completed one append, no call failed,
\* and the file holds only one of the two new records
C10_Witness ==
    /\ Quiescent
    /\ overlapped
    /\ \A w \in Writers : w_pc[w] = "idle" /\ w_quota[w] = 1 /\ w_left[w] = 0
    /\ Len(completed) = 2
    /\ Readable(file)
    /\ Len(RecordsOf(file)) = Len(initial) + 1

-----------------------------------------------------------------------------
(* Properties of the Feed Poller                                           *)

\* the instant of the newest entry of a fetched feed
NewestInstant(snapshot) == Instant(parse(snapshot[1].published))

\* cycle i of the history fetched a timestamp above every earlier one, and
\* was not the first non-empty fetch
NewAt(h, i) ==
    /\ h[i] # Empty
    /\ \E j \in 1..(i - 1) : h[j] # Empty
    /\ \A j \in 1..(i - 1) : h[j] < h[i]

\* the Log Records this run added to the file
RunRecords == SubSeq(RecordsOf(file), Len(initial) + 1, Len(RecordsOf(file)))

C1_Cycle ==
    (pc = "fetch" /\ pc' = "sleep") =>
        LET fresh == /\ last_seen # None
                     /\ feed' # <<>>
                     /\ NewestInstant(feed') > Instant(last_seen)
        IN  /\ fresh =>
                  /\ outcome' = "incident"
                  /\ appended' = Append(appended, feed'[1])
                  /\ RecordsOf(file') = Append(RecordsOf(file), log_data(feed'[1]))
            /\ ~fresh =>
                  /\ outcome' # "incident"
                  /\ appended' = appended
                  /\ file' = file
            /\ (last_seen = None /\ feed' # <<>>) =>
                  /\ outcome' = "init"
                  /\ last_seen' = parse(feed'[1].published)

C1_Count ==
    hist # HistOverflow =>
        /\ Len(appended) = Cardinality({i \in 1..Len(hist) : NewAt(hist, i)})
        /\ Len(RunRecords) = Len(appended)

\* C1: a polling cycle prints and persists a new-incident record if and only
\* if last_seen was already set by an earlier non-empty fetch and the newest
\* entry's timestamp is strictly greater than last_seen; the first non-empty
\* fetch only sets last_seen.  Hence the number of records produced by a
\* sequence of snapshots is the number of snapshots that exceed all earlier
\* ones and are not the first non-empty one (two for T1 < T2 = T2 < T3).
C1_NewIncidentIffStrictlyNewer == [][C1_Cycle]_vars /\ []C1_Count

\* the snapshots T1 < T2 = T2 < T3 were fetched and two records were produced
C1_Witness ==
    /\ hist # HistOverflow
    /\ Len(hist) = 4
    /\ hist[1] # Empty
    /\ hist[1] < hist[2]
    /\ hist[2] = hist[3]
    /\ hist[3] < hist[4]
    /\ Len(RunRecords) = 2
    /\ Len(appended) = 2

\* C2: the Log Records a run has appended are those of feed entries with
\* strictly increasing timestamps, in append order, one record per entry:
\* no feed timestamp is appended twice, and last_seen is the timestamp of
\* the last record, so a fetch that equals it appends nothing.
C2_AppendedOncePerIncreasingTimestamp ==
    /\ \A i, j \in 1..Len(appended) :
          i < j => Instant(parse(appended[i].published))
                     < Instant(parse(appended[j].published))
    /\ RecordsOf(file) = initial \o [i \in 1..Len(appended) |-> log_data(appended[i])]
    /\ appended # <<>> => last_seen = parse(appended[Len(appended)].published)

\* two records were appended and a later fetch repeating the last timestamp
\* appended nothing
C2_Witness ==
    /\ Len(appended) = 2
    /\ Len(RunRecords) = 2
    /\ outcome = "nochange"
    /\ feed # <<>>
    /\ NewestInstant(feed) = Instant(last_seen)

C3_Cycle ==
    (pc = "fetch" /\ feed' = <<>>) =>
        /\ last_seen' = last_seen
        /\ file' = file
        /\ appended' = appended
        /\ outcome' = "empty"
        /\ pc' = "sleep"

\* C3: a cycle whose fetch returns an empty feed leaves last_seen (set or
\* not) and the Log Store unchanged; it only warns and goes to the sleep.
C3_EmptyFeedChangesNothing == [][C3_Cycle]_vars

\* an empty fetch happened after a record had been stored
C3_Witness ==
    /\ outcome = "empty"
    /\ pc = "sleep"
    /\ last_seen # None
    /\ appended # <<>>

C9_Step ==
    /\ pc = "fetch" =>
          /\ pc' = "sleep"
          /\ outcome' \in {"empty", "init", "incident", "nochange"}
    /\ pc = "sleep" =>
          /\ pc' = "fetch"
          /\ UNCHANGED <<feed, last_seen, outcome, hist, appended, file>>

\* C9: the loop never terminates by itself: every cycle, whatever its
\* outcome, is followed by exactly one sleep and then by another fetch, so
\* an empty or unreachable feed is not fatal and a fetch always follows.
C9_LoopNeverEnds ==
    /\ [][C9_Step]_vars
    /\ [](pc \in {"fetch", "sleep"})
    /\ (pc = "sleep") ~> (pc = "fetch")
    /\ []<>(pc = "fetch")

\* the loop is fetching again after an empty feed, past the recorded history
C9_Witness ==
    /\ pc = "fetch"
    /\ outcome = "empty"
    /\ hist = HistOverflow
    /\ appended # <<>>

====
